---- MODULE Spec2Model ----
(***************************************************************************)
(* Model of `prisma migrate deploy` and `prisma migrate status`            *)
(* (packages/migrate/src/commands/MigrateDeploy.ts, which also holds the   *)
(* MigrateStatus command).  The two commands are modelled from their       *)
(* source, await by await.  The Migrate collaborator they drive            *)
(* (diagnoseMigrationHistory, listMigrationDirectories, applyMigrations)   *)
(* lives in ../Migrate, whose source is not available: it is modelled from *)
(* sections 4.1, 4.3 and 6 of the specification.                           *)
(***************************************************************************)
EXTENDS Integers, Sequences, FiniteSets, TLC

\* ------------------------------------------------------------------ bounds
NumMigrations == 3      \* migration identifiers are 1..NumMigrations
MaxFailed == 2          \* longest failedMigrationNames list fed to status
MaxRuns == 2            \* command invocations in one behaviour

Ids == 1..NumMigrations
AllProcs == {"p1", "p2"}

VARIABLES
  \* the world owned by the collaborators
  local,          \* migration directories on disk, ascending identifiers
  hasTable,       \* the _prisma_migrations table exists
  history,        \* rows of the table, one per apply attempt, in apply order
  drift,          \* the live schema differs from what the history implies
  edited,         \* applied migrations whose local checksum changed
  \* one command invocation per process
  pc,             \* position of each process in parse()
  diagnoseResult, \* MigrateDeploy.ts:110 / :295
  listMigrationDirectoriesResult, \* MigrateDeploy.ts:115 / :299
  pending,        \* applyMigrations in flight: migrations still to attempt
  migrationIds,   \* appliedMigrationNames of the apply in flight (:141)
  calls,          \* collaborator operations invoked in this run, in order
  deployResult,   \* what deploy's parse() returned or threw
  statusResult,   \* what status's parse() printed, returned or threw
  runs,           \* command invocations started so far
  unchangedSinceOk, \* no change to disk or database since a deploy succeeded
  startedAfterOk, \* unchangedSinceOk as it was when the run started
  editedWarned,   \* this run printed the warning of :131-138
  offered,        \* the resolve commands of the failed-migration plans so far
  overlapped,     \* some run started while another run was in progress
  \* the status report as a function of its two inputs
  advIn, advOut

vars == <<local, hasTable, history, drift, edited, pc, diagnoseResult,
          listMigrationDirectoriesResult, pending, migrationIds, calls,
          deployResult, statusResult, runs, unchangedSinceOk, startedAfterOk,
          editedWarned, offered, overlapped, advIn, advOut>>

worldVars == <<local, hasTable, history, drift, edited>>
advVars == <<advIn, advOut>>
logVars == <<editedWarned, offered, overlapped>>

\* ----------------------------------------------------------------- helpers
Range(s) == {s[i] : i \in DOMAIN s}

RECURSIVE SortedSeq(_)
SortedSeq(S) ==
  IF S = {} THEN <<>>
  ELSE LET m == CHOOSE x \in S : \A y \in S : x <= y
       IN <<m>> \o SortedSeq(S \ {m})

IsAscending(s) == \A i, j \in DOMAIN s : i < j => s[i] < s[j]

\* all sequences without repetition over S, of length at most n
RECURSIVE InjSeqs(_, _)
InjSeqs(S, n) ==
  IF n = 0 THEN {<<>>}
  ELSE LET shorter == InjSeqs(S, n - 1)
           longer == UNION {{Append(s, x) : x \in S \ Range(s)} : s \in shorter}
       IN shorter \cup longer

\* Array.prototype.join(','), which is what a template string does to an
\* array: the names with a separator (0) between them
RECURSIVE JoinComma(_)
JoinComma(a) ==
  IF Len(a) = 0 THEN <<>>
  ELSE IF Len(a) = 1 THEN <<a[1]>>
  ELSE <<a[1], 0>> \o JoinComma(Tail(a))

\* a template string around one name
NameText(m) == <<m>>

\* ------------------------------------------------- the Migrate collaborator
\* (specification sections 3, 4.1, 4.3 and 6; its source is not available)

\* one row per apply attempt: identifier, success, rolled_back_at (section 6)
Row(m, ok) == [id |-> m, success |-> ok, rolledBack |-> FALSE]

\* the migrations the history counts: a rolled-back attempt counts for nothing
RecordedIds ==
  {history[i].id : i \in {j \in DOMAIN history : ~history[j].rolledBack}}

\* a failed attempt stays failed until it is resolved
IsFailedRow(r) == ~r.success /\ ~r.rolledBack

\* failedMigrationNames: the rows with success = false, by apply timestamp
FailedMigrationNames ==
  LET failedRows == SelectSeq(history, IsFailedRow)
  IN [i \in 1..Len(failedRows) |-> failedRows[i].id]

\* a variant that takes every local migration for pending
IsUnappliedAlways(m) == TRUE

IsUnapplied(m) == m \notin RecordedIds

\* the local migrations (by identifier) with no row in the history
UnappliedMigrationNames == SelectSeq(local, IsUnapplied)

\* HistoryDiagnostic: inSync | databaseIsBehind | historiesDiverge
HistoryDiagnostic ==
  LET k == Cardinality(RecordedIds)
      isPrefix == k <= Len(local) /\ RecordedIds = Range(SubSeq(local, 1, k))
  IN IF isPrefix /\ k = Len(local)
       THEN [diagnostic |-> "inSync", unappliedMigrationNames |-> <<>>]
     ELSE IF isPrefix
       THEN [diagnostic |-> "databaseIsBehind",
             unappliedMigrationNames |-> UnappliedMigrationNames]
     ELSE [diagnostic |-> "historiesDiverge",
           unappliedMigrationNames |-> UnappliedMigrationNames]

\* DriftReport; the rollback script needs the shadow database, and both
\* commands pass optInToShadowDatabase: false
DriftReport(optInToShadowDatabase) ==
  IF drift
    THEN [diagnostic |-> "driftDetected", rollback |-> optInToShadowDatabase]
    ELSE [diagnostic |-> "noDrift", rollback |-> FALSE]

EditedMigrationNames == SortedSeq(edited \cap RecordedIds \cap Range(local))

\* diagnoseMigrationHistory: a fresh DiagnoseResult on every call
DiagnoseMigrationHistory(optInToShadowDatabase) ==
  [hasMigrationsTable |-> hasTable,
   history |-> HistoryDiagnostic,
   drift |-> DriftReport(optInToShadowDatabase),
   failedMigrationNames |-> FailedMigrationNames,
   editedMigrationNames |-> EditedMigrationNames]

\* listMigrationDirectories: the local migrations, oldest first
ListMigrationDirectories == [migrations |-> local]

\* section 4.3, preconditions of apply: no unresolved failure, no blocking
\* drift, history inSync or databaseIsBehind
NoBlockingState(d) ==
  /\ d.history.diagnostic \in {"inSync", "databaseIsBehind"}
  /\ d.failedMigrationNames = <<>>
  /\ ~(d.drift.diagnostic = "driftDetected"
       /\ d.history.diagnostic \in {"databaseIsBehind", "historiesDiverge"})

ApplyPrecondition == NoBlockingState(DiagnoseMigrationHistory(FALSE))

\* a variant that goes on after a failed migration
ApplyContinuesAfterFailure(ok) == TRUE

\* section 4.3: apply goes on to the next migration only after a success
ApplyContinues(ok) == ok

\* ------------------------------------------------------ MigrateStatus.parse
\* the part of parse() after the two calls (MigrateDeploy.ts:303-442), as a
\* function of diagnoseResult and listMigrationDirectoriesResult

Command(flag, text) == [flag |-> flag, arg |-> text]

\* a variant that lists the unapplied migrations newest first
ReportNewestFirst(ret, threw, commands, d) ==
  [ret |-> ret, threw |-> threw, commands |-> commands,
   behindNotice |-> d.history.diagnostic = "databaseIsBehind",
   unappliedListed |->
     IF d.history.diagnostic = "databaseIsBehind"
       THEN LET u == d.history.unappliedMigrationNames
            IN [i \in 1..Len(u) |-> u[Len(u) + 1 - i]]
       ELSE <<>>]

Report(ret, threw, commands, d) ==
  [ret |-> ret, threw |-> threw, commands |-> commands,
   \* :316-333, printed before any branch is chosen
   behindNotice |-> d.history.diagnostic = "databaseIsBehind",
   unappliedListed |-> IF d.history.diagnostic = "databaseIsBehind"
                         THEN d.history.unappliedMigrationNames ELSE <<>>]

\* a variant that takes the other end of the list (pop() for shift())
LastMigration(migrations) == migrations[Len(migrations)]

\* :348, migrations.shift(): the first element of the list
FirstMigration(migrations) == Head(migrations)

\* a variant that takes the newest failed migration
LastFailed(failedMigrations) == failedMigrations[Len(failedMigrations)]

\* :393 and :400, failedMigrations[0]
FirstFailed(failedMigrations) == failedMigrations[1]

\* :417 and :436, the whole array inside a template string
UnappliedText(h) == JoinComma(h.unappliedMigrationNames)

\* a variant without the test for an empty migrations folder (:345)
BaselineBranchSilent(d, migrations) ==
  IF Len(migrations) = 0
    THEN Report("upToDate", FALSE, <<>>, d)
    ELSE Report("baseline", FALSE,
                <<Command("applied", NameText(FirstMigration(migrations)))>>, d)

\* :335-360
BaselineBranch(d, migrations) ==
  IF Len(migrations) = 0
    THEN Report("HowToBaselineError", TRUE, <<>>, d)
    ELSE Report("baseline", FALSE,
                <<Command("applied", NameText(FirstMigration(migrations)))>>, d)

\* :361-405
FailedBranch(d) ==
  LET failedMigrations == d.failedMigrationNames
  IN Report("failed", FALSE,
            <<Command("rolledback", NameText(FirstFailed(failedMigrations))),
              Command("applied", NameText(FirstFailed(failedMigrations)))>>, d)

\* :406-438
DriftBranch(d) ==
  Report("drift", FALSE, <<Command("applied", UnappliedText(d.history))>>, d)

\* :439-442
ElseBranch(d) == Report("upToDate", FALSE, <<>>, d)

\* a variant that also takes edited migrations for drift
IsDriftBranchOrEdited(d) ==
  \/ Len(d.editedMigrationNames) > 0
  \/ /\ d.drift.diagnostic = "driftDetected"
     /\ \/ d.history.diagnostic = "databaseIsBehind"
        \/ d.history.diagnostic = "historiesDiverge"

\* :406-410
IsDriftBranch(d) ==
  /\ d.drift.diagnostic = "driftDetected"
  /\ \/ d.history.diagnostic = "databaseIsBehind"
     \/ d.history.diagnostic = "historiesDiverge"

\* a variant that looks at the failed migrations before the migrations table
StatusReportFailedFirst(d, migrations) ==
  IF Len(d.failedMigrationNames) > 0 THEN FailedBranch(d)
  ELSE IF ~d.hasMigrationsTable THEN BaselineBranch(d, migrations)
  ELSE IF IsDriftBranch(d) THEN DriftBranch(d)
  ELSE ElseBranch(d)

\* :335, :361, :406, :439: the if / else-if chain
StatusReport(d, migrations) ==
  IF ~d.hasMigrationsTable THEN BaselineBranch(d, migrations)
  ELSE IF Len(d.failedMigrationNames) > 0 THEN FailedBranch(d)
  ELSE IF IsDriftBranch(d) THEN DriftBranch(d)
  ELSE ElseBranch(d)

\* :369-386, what the failed branch prints before it returns
RollbackPrinted(d) ==
  /\ d.hasMigrationsTable
  /\ Len(d.failedMigrationNames) > 0
  /\ d.drift.diagnostic = "driftDetected"
  /\ d.drift.rollback

\* ------------------------------------------------------ MigrateDeploy.parse
\* :130-138
EditedWarning(d) == Len(d.editedMigrationNames) > 0

\* a variant with the test of :147 inverted
DeployReturnInverted(ids) ==
  [threw |-> FALSE,
   text |-> IF Len(ids) # 0 THEN "No pending migrations to apply."
            ELSE "All migrations have been successfully applied.",
   migrationIds |-> ids]

\* :146-159
DeployReturn(ids) ==
  [threw |-> FALSE,
   text |-> IF Len(ids) = 0 THEN "No pending migrations to apply."
            ELSE "All migrations have been successfully applied.",
   migrationIds |-> ids]

DeployThrow(error) == [threw |-> TRUE, text |-> error, migrationIds |-> <<>>]

NoResult == [threw |-> FALSE, text |-> "", migrationIds |-> <<>>]

\* ---------------------------------------------------------------- the runs
NoDiagnose ==
  [hasMigrationsTable |-> TRUE,
   history |-> [diagnostic |-> "inSync", unappliedMigrationNames |-> <<>>],
   drift |-> [diagnostic |-> "noDrift", rollback |-> FALSE],
   failedMigrationNames |-> <<>>,
   editedMigrationNames |-> <<>>]

NoList == [migrations |-> <<>>]

NoReport == Report("", FALSE, <<>>, NoDiagnose)

Finished == {"idle", "d_done", "d_failed", "s_done", "s_failed"}

InitWorld ==
  /\ local \in {SortedSeq(S) : S \in SUBSET Ids}
  /\ hasTable \in BOOLEAN
  /\ \E A \in SUBSET Ids :
       /\ ~hasTable => A = {}
       /\ history = [i \in 1..Cardinality(A) |-> Row(SortedSeq(A)[i], TRUE)]
       /\ edited \in {{}} \cup {{m} : m \in A \cap Range(local)}
  /\ drift \in BOOLEAN

InitRuns ==
  /\ pc = [p \in AllProcs |-> "idle"]
  /\ diagnoseResult = [p \in AllProcs |-> NoDiagnose]
  /\ listMigrationDirectoriesResult = [p \in AllProcs |-> NoList]
  /\ pending = [p \in AllProcs |-> <<>>]
  /\ migrationIds = [p \in AllProcs |-> <<>>]
  /\ calls = [p \in AllProcs |-> <<>>]
  /\ deployResult = [p \in AllProcs |-> NoResult]
  /\ statusResult = [p \in AllProcs |-> NoReport]
  /\ runs = 0
  /\ unchangedSinceOk = FALSE
  /\ startedAfterOk = [p \in AllProcs |-> FALSE]
  /\ editedWarned = [p \in AllProcs |-> FALSE]
  /\ offered = <<>>
  /\ overlapped = FALSE

Init == InitWorld /\ InitRuns /\ advIn = <<>> /\ advOut = <<>>

\* a new invocation of a command: new Migrate(schemaPath), :101 / :284
Start(p, first) ==
  /\ pc[p] \in Finished
  /\ runs < MaxRuns
  /\ runs' = runs + 1
  /\ pc' = [pc EXCEPT ![p] = first]
  /\ diagnoseResult' = [diagnoseResult EXCEPT ![p] = NoDiagnose]
  /\ listMigrationDirectoriesResult' =
       [listMigrationDirectoriesResult EXCEPT ![p] = NoList]
  /\ pending' = [pending EXCEPT ![p] = <<>>]
  /\ migrationIds' = [migrationIds EXCEPT ![p] = <<>>]
  /\ calls' = [calls EXCEPT ![p] = <<>>]
  /\ deployResult' = [deployResult EXCEPT ![p] = NoResult]
  /\ statusResult' = [statusResult EXCEPT ![p] = NoReport]
  /\ startedAfterOk' = [startedAfterOk EXCEPT ![p] = unchangedSinceOk]
  /\ editedWarned' = [editedWarned EXCEPT ![p] = FALSE]
  /\ overlapped' = (overlapped \/ \E q \in AllProcs \ {p} : pc[q] \notin Finished)
  /\ UNCHANGED <<worldVars, unchangedSinceOk, offered, advVars>>

StartDeploy(p) == Start(p, "d_ensure")

StartStatus(p) == Start(p, "s_ensure")

\* the operation a process is about to invoke
OpAt(at) ==
  CASE at \in {"d_diagnose", "s_diagnose"} -> <<"diagnoseMigrationHistory">>
    [] at \in {"d_list", "s_list"} -> <<"listMigrationDirectories">>
    [] at = "d_apply" -> <<"applyMigrations">>
    [] OTHER -> <<>>

\* :104, ensureDatabaseExists('apply', true, schemaPath)
DeployEnsure(p) ==
  /\ pc[p] = "d_ensure"
  /\ pc' = [pc EXCEPT ![p] = "d_diagnose"]
  /\ UNCHANGED <<worldVars, diagnoseResult, listMigrationDirectoriesResult,
                 pending, migrationIds, calls, deployResult, statusResult,
                 runs, logVars, unchangedSinceOk, startedAfterOk, advVars>>

\* :110-113
DeployDiagnose(p) ==
  /\ pc[p] = "d_diagnose"
  /\ calls' = [calls EXCEPT ![p] = @ \o OpAt(pc[p])]
  /\ diagnoseResult' =
       [diagnoseResult EXCEPT ![p] = DiagnoseMigrationHistory(FALSE)]
  /\ pc' = [pc EXCEPT ![p] = "d_list"]
  /\ UNCHANGED <<worldVars, listMigrationDirectoriesResult, pending,
                 migrationIds, deployResult, statusResult, runs, logVars,
                 unchangedSinceOk, startedAfterOk, advVars>>

\* a variant that refuses to deploy over edited migrations
DeployListBlocksOnEdited(p) ==
  /\ pc[p] = "d_list"
  /\ calls' = [calls EXCEPT ![p] = @ \o OpAt(pc[p])]
  /\ listMigrationDirectoriesResult' =
       [listMigrationDirectoriesResult EXCEPT ![p] = ListMigrationDirectories]
  /\ editedWarned' =
       [editedWarned EXCEPT ![p] = EditedWarning(diagnoseResult[p])]
  /\ IF EditedWarning(diagnoseResult[p])
       THEN /\ pc' = [pc EXCEPT ![p] = "d_failed"]
            /\ deployResult' =
                 [deployResult EXCEPT ![p] = DeployThrow("EditedMigrations")]
       ELSE /\ pc' = [pc EXCEPT ![p] = "d_apply"]
            /\ UNCHANGED deployResult
  /\ UNCHANGED <<worldVars, diagnoseResult, pending, migrationIds,
                 statusResult, runs, offered, overlapped, unchangedSinceOk,
                 startedAfterOk, advVars>>

\* :115-138; nothing between the list and the apply looks at diagnoseResult
\* except the warning about edited migrations
DeployList(p) ==
  /\ pc[p] = "d_list"
  /\ calls' = [calls EXCEPT ![p] = @ \o OpAt(pc[p])]
  /\ listMigrationDirectoriesResult' =
       [listMigrationDirectoriesResult EXCEPT ![p] = ListMigrationDirectories]
  /\ editedWarned' =
       [editedWarned EXCEPT ![p] = EditedWarning(diagnoseResult[p])]
  /\ pc' = [pc EXCEPT ![p] = "d_apply"]
  /\ UNCHANGED <<worldVars, diagnoseResult, pending, migrationIds,
                 deployResult, statusResult, runs, offered, overlapped, unchangedSinceOk,
                 startedAfterOk, advVars>>

\* :140-142, migrate.applyMigrations() is invoked; the collaborator refuses
\* a history it must not apply on top of (section 4.3), else takes the
\* unapplied migrations as its work
DeployApply(p) ==
  /\ pc[p] = "d_apply"
  /\ calls' = [calls EXCEPT ![p] = @ \o OpAt(pc[p])]
  /\ IF ApplyPrecondition
       THEN /\ pending' = [pending EXCEPT ![p] = UnappliedMigrationNames]
            /\ pc' = [pc EXCEPT ![p] = "d_applying"]
            /\ UNCHANGED deployResult
       ELSE /\ pc' = [pc EXCEPT ![p] = "d_failed"]
            /\ deployResult' =
                 [deployResult EXCEPT ![p] = DeployThrow("PreconditionViolation")]
            /\ UNCHANGED pending
  /\ UNCHANGED <<worldVars, diagnoseResult, listMigrationDirectoriesResult,
                 migrationIds, statusResult, runs, logVars, unchangedSinceOk,
                 startedAfterOk, advVars>>

\* section 4.3: the collaborator attempts the next pending migration and
\* records the attempt; a failure ends applyMigrations with an error
ApplyStep(p) ==
  /\ pc[p] = "d_applying"
  /\ pending[p] # <<>>
  /\ \E ok \in BOOLEAN :
       /\ history' = Append(history, Row(Head(pending[p]), ok))
       /\ migrationIds' =
            [migrationIds EXCEPT ![p] = IF ok THEN Append(@, Head(pending[p])) ELSE @]
       /\ IF ApplyContinues(ok)
            THEN UNCHANGED <<pc, deployResult>>
            ELSE /\ pc' = [pc EXCEPT ![p] = "d_failed"]
                 /\ deployResult' =
                      [deployResult EXCEPT ![p] = DeployThrow("MigrationFailed")]
  /\ hasTable' = TRUE
  /\ pending' = [pending EXCEPT ![p] = Tail(@)]
  /\ unchangedSinceOk' = FALSE
  /\ UNCHANGED <<local, drift, edited, diagnoseResult,
                 listMigrationDirectoriesResult, calls, statusResult, runs, logVars,
                 startedAfterOk, advVars>>

\* :142-159, applyMigrations returned: stop the engine, report
DeployFinish(p) ==
  /\ pc[p] = "d_applying"
  /\ pending[p] = <<>>
  /\ calls' = [calls EXCEPT ![p] = Append(@, "stop")]
  /\ deployResult' = [deployResult EXCEPT ![p] = DeployReturn(migrationIds[p])]
  /\ pc' = [pc EXCEPT ![p] = "d_done"]
  /\ unchangedSinceOk' = TRUE
  /\ UNCHANGED <<worldVars, diagnoseResult, listMigrationDirectoriesResult,
                 pending, migrationIds, statusResult, runs, logVars, startedAfterOk,
                 advVars>>

\* a variant that invokes the rejected operation a second time before it
\* gives up
DeployCollaboratorThrowsAfterRetry(p) ==
  /\ pc[p] \in {"d_ensure", "d_diagnose", "d_list", "d_apply"}
  /\ calls' = [calls EXCEPT ![p] = @ \o OpAt(pc[p]) \o OpAt(pc[p])]
  /\ deployResult' = [deployResult EXCEPT ![p] = DeployThrow("Connectivity")]
  /\ pc' = [pc EXCEPT ![p] = "d_failed"]
  /\ UNCHANGED <<worldVars, diagnoseResult, listMigrationDirectoriesResult,
                 pending, migrationIds, statusResult, runs, logVars, unchangedSinceOk,
                 startedAfterOk, advVars>>

\* an awaited call rejects (the database or the engine is unreachable): the
\* exception leaves parse(), which has no try/catch/finally
DeployCollaboratorThrows(p) ==
  /\ pc[p] \in {"d_ensure", "d_diagnose", "d_list", "d_apply"}
  /\ calls' = [calls EXCEPT ![p] = @ \o OpAt(pc[p])]
  /\ deployResult' = [deployResult EXCEPT ![p] = DeployThrow("Connectivity")]
  /\ pc' = [pc EXCEPT ![p] = "d_failed"]
  /\ UNCHANGED <<worldVars, diagnoseResult, listMigrationDirectoriesResult,
                 pending, migrationIds, statusResult, runs, logVars, unchangedSinceOk,
                 startedAfterOk, advVars>>

\* :286, ensureCanConnectToDatabase(schemaPath)
StatusEnsure(p) ==
  /\ pc[p] = "s_ensure"
  /\ pc' = [pc EXCEPT ![p] = "s_diagnose"]
  /\ UNCHANGED <<worldVars, diagnoseResult, listMigrationDirectoriesResult,
                 pending, migrationIds, calls, deployResult, statusResult,
                 runs, logVars, unchangedSinceOk, startedAfterOk, advVars>>

\* a variant that opts in to the shadow database
StatusDiagnoseShadow(p) ==
  /\ pc[p] = "s_diagnose"
  /\ calls' = [calls EXCEPT ![p] = @ \o OpAt(pc[p])]
  /\ diagnoseResult' =
       [diagnoseResult EXCEPT ![p] = DiagnoseMigrationHistory(TRUE)]
  /\ pc' = [pc EXCEPT ![p] = "s_list"]
  /\ UNCHANGED <<worldVars, listMigrationDirectoriesResult, pending,
                 migrationIds, deployResult, statusResult, runs, logVars,
                 unchangedSinceOk, startedAfterOk, advVars>>

\* :295-298
StatusDiagnose(p) ==
  /\ pc[p] = "s_diagnose"
  /\ calls' = [calls EXCEPT ![p] = @ \o OpAt(pc[p])]
  /\ diagnoseResult' =
       [diagnoseResult EXCEPT ![p] = DiagnoseMigrationHistory(FALSE)]
  /\ pc' = [pc EXCEPT ![p] = "s_list"]
  /\ UNCHANGED <<worldVars, listMigrationDirectoriesResult, pending,
                 migrationIds, deployResult, statusResult, runs, logVars,
                 unchangedSinceOk, startedAfterOk, advVars>>

\* :299-442: the list, migrate.stop(), then the report
StatusList(p) ==
  /\ pc[p] = "s_list"
  /\ calls' = [calls EXCEPT ![p] = @ \o OpAt(pc[p]) \o <<"stop">>]
  /\ listMigrationDirectoriesResult' =
       [listMigrationDirectoriesResult EXCEPT ![p] = ListMigrationDirectories]
  /\ LET report == StatusReport(diagnoseResult[p],
                                ListMigrationDirectories.migrations)
     IN /\ statusResult' = [statusResult EXCEPT ![p] = report]
        /\ offered' = IF report.ret = "failed"
                         THEN Append(offered, report.commands) ELSE offered
        /\ pc' = [pc EXCEPT ![p] = IF report.threw THEN "s_failed" ELSE "s_done"]
  /\ UNCHANGED <<worldVars, diagnoseResult, pending, migrationIds,
                 deployResult, runs, editedWarned, overlapped, unchangedSinceOk, startedAfterOk, advVars>>

StatusCollaboratorThrows(p) ==
  /\ pc[p] \in {"s_ensure", "s_diagnose", "s_list"}
  /\ calls' = [calls EXCEPT ![p] = @ \o OpAt(pc[p])]
  /\ statusResult' =
       [statusResult EXCEPT ![p] = Report("Connectivity", TRUE, <<>>, NoDiagnose)]
  /\ pc' = [pc EXCEPT ![p] = "s_failed"]
  /\ UNCHANGED <<worldVars, diagnoseResult, listMigrationDirectoriesResult,
                 pending, migrationIds, deployResult, runs, logVars, unchangedSinceOk,
                 startedAfterOk, advVars>>

Run(p) ==
  \/ StartDeploy(p)
  \/ DeployEnsure(p)
  \/ DeployDiagnose(p)
  \/ DeployList(p)
  \/ DeployApply(p)
  \/ ApplyStep(p)
  \/ DeployFinish(p)
  \/ DeployCollaboratorThrows(p)
  \/ StartStatus(p)
  \/ StatusEnsure(p)
  \/ StatusDiagnose(p)
  \/ StatusList(p)
  \/ StatusCollaboratorThrows(p)

\* one invocation at a time: the caller serializes the commands
Next == Run("p1")

Spec == Init /\ [][Next]_vars

\* --------------------------------------- the status report on every input
\* the values diagnoseMigrationHistory and listMigrationDirectories can hand
\* to MigrateStatus.parse: the unapplied migrations are local migrations,
\* the failed ones come in whatever order the engine lists them
HistoryShapes(U) ==
  (IF U = {} THEN {"inSync"} ELSE {"databaseIsBehind"}) \cup {"historiesDiverge"}

DriftShapes ==
  {[diagnostic |-> "noDrift", rollback |-> FALSE],
   [diagnostic |-> "driftDetected", rollback |-> FALSE],
   [diagnostic |-> "driftDetected", rollback |-> TRUE]}

AdvInput(t, h, U, dr, f, e, L) ==
  [d |-> [hasMigrationsTable |-> t,
          history |-> [diagnostic |-> h,
                       unappliedMigrationNames |-> SortedSeq(U)],
          drift |-> dr,
          failedMigrationNames |-> f,
          editedMigrationNames |-> e],
   migrations |-> SortedSeq(L)]

InitAdvise ==
  /\ local = <<>> /\ hasTable = FALSE /\ history = <<>>
  /\ drift = FALSE /\ edited = {}
  /\ InitRuns
  /\ \E L \in SUBSET Ids : \E U \in SUBSET L :
       \E t \in BOOLEAN, h \in HistoryShapes(U), dr \in DriftShapes,
          f \in InjSeqs(Ids, MaxFailed), e \in {<<>>, <<1>>} :
         advIn = <<AdvInput(t, h, U, dr, f, e, L)>>
  /\ advOut = <<>>

\* MigrateDeploy.ts:303-442 on the given pair of results
Advise ==
  /\ advIn # <<>>
  /\ advOut = <<>>
  /\ advOut' = <<StatusReport(advIn[1].d, advIn[1].migrations)>>
  /\ UNCHANGED <<worldVars, pc, diagnoseResult, listMigrationDirectoriesResult,
                 pending, migrationIds, calls, deployResult, statusResult,
                 runs, logVars, unchangedSinceOk, startedAfterOk, advIn>>

NextAdvise == Advise

SpecAdvise == InitAdvise /\ [][NextAdvise]_vars

\* ================================================================== claims
Invoked(p, op) == op \in Range(calls[p])

HasFailedRow == \E i \in DOMAIN history : ~history[i].success

LastRow == history[Len(history)]

RowAdded == Len(history') > Len(history)

\* the successfully applied migrations are exactly the first k local ones
PrefixApplied(k) ==
  /\ k <= Len(local)
  /\ RecordedIds = Range(SubSeq(local, 1, k))
  /\ ~HasFailedRow

\* C1: deploy invokes applyMigrations only when the DiagnoseResult it just
\* obtained has no unresolved failure and no blocking drift (history inSync
\* or databaseIsBehind, no failed migration, no drift with a behind or
\* diverged history); on any other DiagnoseResult applyMigrations is never
\* invoked.
C1_ApplyOnlyOnCleanDiagnosis ==
  \A p \in AllProcs :
    Invoked(p, "applyMigrations") => NoBlockingState(diagnoseResult[p])

\* C2: when applying a migration D fails, D is recorded as failed and no
\* migration is attempted after it (an attempt is only ever made while no
\* failure is recorded); the run ends with D as the last row, and a diagnose
\* made next reports failedMigrationNames = <<D>>.
C2_FailureHalt ==
  /\ [](\A p \in AllProcs :
          deployResult[p].text = "MigrationFailed" =>
            /\ pc[p] = "d_failed"
            /\ ~LastRow.success
            /\ LastRow.id \notin Range(migrationIds[p])
            /\ DiagnoseMigrationHistory(FALSE).failedMigrationNames = <<LastRow.id>>)
  /\ [](\A p \in AllProcs :
          HasFailedRow /\ pc[p] \in {"d_list", "s_list"} =>
            diagnoseResult[p].failedMigrationNames = <<LastRow.id>>)
  /\ [][RowAdded => ~HasFailedRow]_vars

\* C2 witness: D failed with two migrations pending after it, neither was
\* attempted, and the next run has diagnosed failedMigrationNames = <<D>>.
C2_Witness ==
  /\ pc["p1"] = "s_list"
  /\ HasFailedRow
  /\ Len(UnappliedMigrationNames) >= 2
  /\ diagnoseResult["p1"].failedMigrationNames = <<LastRow.id>>

\* C3: when only the first k local migrations are applied, the diagnosis is
\* databaseIsBehind with unappliedMigrationNames the remaining local
\* migrations in ascending order, status lists them in that order, and apply
\* attempts one migration at a time, never one whose earlier local
\* migrations are not all applied successfully.
C3_Ordering ==
  /\ [](\A p \in AllProcs : \A k \in 0..Len(local) :
          PrefixApplied(k) /\ k < Len(local) =>
            LET rest == SubSeq(local, k + 1, Len(local))
            IN /\ DiagnoseMigrationHistory(FALSE).history =
                    [diagnostic |-> "databaseIsBehind",
                     unappliedMigrationNames |-> rest]
               /\ IsAscending(rest)
               /\ pc[p] = "s_done" => /\ statusResult[p].behindNotice
                                      /\ statusResult[p].unappliedListed = rest)
  /\ [][RowAdded =>
          /\ Len(history') = Len(history) + 1
          /\ \A i \in DOMAIN local :
               local[i] < history'[Len(history')].id =>
                 \E j \in DOMAIN history :
                   history[j].id = local[i] /\ history[j].success]_vars

\* C3 witness: A was applied, and a deploy applied B then C.
C3_Witness ==
  /\ pc["p1"] = "d_done"
  /\ local = <<1, 2, 3>>
  /\ migrationIds["p1"] = <<2, 3>>
  /\ history[Len(history)] = Row(3, TRUE)

\* C4: a deploy started after a deploy that fully succeeded, with no change
\* to the local migrations or the database in between, applies nothing and
\* returns appliedMigrationNames = <<>> ("No pending migrations to apply.").
C4_Idempotence ==
  \A p \in AllProcs :
    startedAfterOk[p] /\ pc[p] \in {"d_apply", "d_applying", "d_done", "d_failed"} =>
      /\ migrationIds[p] = <<>>
      /\ pending[p] = <<>>
      /\ unchangedSinceOk
      /\ deployResult[p].text # "MigrationFailed"
      /\ deployResult[p].text # "PreconditionViolation"
      /\ pc[p] = "d_done" =>
           deployResult[p] = [threw |-> FALSE,
                              text |-> "No pending migrations to apply.",
                              migrationIds |-> <<>>]

\* C4 witness: the second of two deploys in succession has returned, on a
\* database the first one migrated.
C4_Witness ==
  /\ pc["p1"] = "d_done"
  /\ startedAfterOk["p1"]
  /\ Len(local) >= 2
  /\ Len(history) >= 2

\* the five conditions of the classification, as the claims number them
Cond1(d) == ~d.hasMigrationsTable
Cond2(d) == d.failedMigrationNames # <<>>
Cond3(d) ==
  /\ d.drift.diagnostic = "driftDetected"
  /\ d.history.diagnostic \in {"databaseIsBehind", "historiesDiverge"}
Cond4(d) == d.history.diagnostic = "databaseIsBehind"
Cond5(d) == d.history.diagnostic = "inSync" /\ d.drift.diagnostic = "noDrift"

Min(S) == CHOOSE x \in S : \A y \in S : x <= y

Advised == advOut # <<>>
advD == advIn[1].d
advMigrations == advIn[1].migrations
advReport == advOut[1]

\* C5: the report is that of the lowest-numbered condition that holds:
\* (1) no migrations table: the baseline plan (or HowToBaselineError);
\* (2) failed migrations: the failed-migration plan; (3) drift with a behind
\* or diverged history: the drift plan; (4) databaseIsBehind: the notice of
\* the unapplied migrations and no resolve command; (5) in sync: up to date.
C5_Precedence ==
  Advised =>
    IF Cond1(advD) THEN advReport.ret \in {"baseline", "HowToBaselineError"}
    ELSE IF Cond2(advD) THEN advReport.ret = "failed"
    ELSE IF Cond3(advD) THEN advReport.ret = "drift"
    ELSE IF Cond4(advD)
      THEN /\ advReport.behindNotice
           /\ advReport.unappliedListed = advD.history.unappliedMigrationNames
           /\ advReport.commands = <<>>
           /\ ~advReport.threw
    ELSE IF Cond5(advD)
      THEN /\ advReport.ret = "upToDate"
           /\ ~advReport.behindNotice
           /\ advReport.commands = <<>>
    ELSE TRUE

\* C5 witness: no migrations table, failed migrations and blocking drift at
\* once, reported with the baseline plan.
C5_Witness ==
  /\ Advised
  /\ Cond1(advD) /\ Cond2(advD) /\ Cond3(advD) /\ Cond4(advD)
  /\ advReport.ret = "baseline"

\* C6: a DiagnoseResult that matches none of the five conditions is never
\* reported with the up-to-date plan: it ends in an unknown-state error.
C6_NoSilentDefault ==
  Advised /\ ~Cond1(advD) /\ ~Cond2(advD) /\ ~Cond3(advD) /\ ~Cond4(advD)
          /\ ~Cond5(advD) =>
    advReport.ret # "upToDate" /\ advReport.threw

\* C7: with a migrations table and failed migrations, the migration named in
\* the resolve commands is the chronologically earliest failed migration,
\* whatever the order of failedMigrationNames.
C7_EarliestFailed ==
  Advised /\ ~Cond1(advD) /\ Cond2(advD) =>
    \A i \in DOMAIN advReport.commands :
      advReport.commands[i].arg = NameText(Min(Range(advD.failedMigrationNames)))

StatusReported(p) == pc[p] \in {"s_done", "s_failed"} /\ Invoked(p, "stop")

ApplyEnded(p) ==
  /\ Invoked(p, "applyMigrations")
  /\ pc[p] \in {"d_done", "d_failed"}
  /\ deployResult[p].text # "Connectivity"

InSyncNoDrift(d) ==
  d.history.diagnostic = "inSync" /\ d.drift.diagnostic = "noDrift"

UpToDatePlan(r) ==
  r.ret = "upToDate" /\ ~r.threw /\ r.commands = <<>> /\ ~r.behindNotice

\* no row of the history was written by this run of deploy
AppliedNothing(p) ==
  /\ migrationIds[p] = <<>>
  /\ deployResult[p].text # "MigrationFailed"
  /\ deployResult[p].migrationIds = <<>>

\* C8 as stated: for every DiagnoseResult with history = inSync and drift =
\* noDrift, whatever its other fields, status returns the up-to-date plan and
\* deploy's apply applies no migration.
C8_AsStated ==
  \A p \in AllProcs :
    InSyncNoDrift(diagnoseResult[p]) =>
      /\ StatusReported(p) => UpToDatePlan(statusResult[p])
      /\ ApplyEnded(p) => AppliedNothing(p)

\* C8 amended: for every DiagnoseResult with history = inSync, drift =
\* noDrift, a migrations table and no failed migration, whatever
\* editedMigrationNames, status returns the up-to-date plan; and for every
\* DiagnoseResult with history = inSync and drift = noDrift deploy's apply
\* applies no migration.
C8_InSyncNoAction ==
  \A p \in AllProcs :
    InSyncNoDrift(diagnoseResult[p]) =>
      /\ StatusReported(p) /\ diagnoseResult[p].hasMigrationsTable
           /\ diagnoseResult[p].failedMigrationNames = <<>> =>
             UpToDatePlan(statusResult[p])
      /\ ApplyEnded(p) => AppliedNothing(p)

\* C8 witness: status reported on an in-sync database with an edited
\* migration.
C8_Witness ==
  /\ StatusReported("p1")
  /\ InSyncNoDrift(diagnoseResult["p1"])
  /\ diagnoseResult["p1"].hasMigrationsTable
  /\ diagnoseResult["p1"].editedMigrationNames # <<>>
  /\ Len(local) >= 2
  /\ statusResult["p1"].ret = "upToDate"

\* C9: with drift and a behind or diverged history (migrations table, no
\* failed migration), the resolve --applied command names exactly one
\* migration, the first of unappliedMigrationNames.
C9_FirstUnapplied ==
  Advised /\ ~Cond1(advD) /\ ~Cond2(advD) /\ Cond3(advD)
          /\ advD.history.unappliedMigrationNames # <<>> =>
    advReport.commands =
      <<Command("applied", NameText(Head(advD.history.unappliedMigrationNames)))>>

\* C10: without a migrations table and with at least one local migration,
\* status proposes resolve --applied for the oldest local migration and for
\* no other, whatever the history, drift and failed migrations.
C10_BaselineOldest ==
  Advised /\ Cond1(advD) /\ advMigrations # <<>> =>
    /\ advReport.ret = "baseline"
    /\ advReport.commands =
         <<Command("applied", NameText(Min(Range(advMigrations))))>>

\* C10 witness: two or more local migrations, failed migrations and drift.
C10_Witness ==
  /\ Advised
  /\ Cond1(advD) /\ Cond2(advD) /\ Cond3(advD)
  /\ Len(advMigrations) >= 2
  /\ advReport.commands = <<Command("applied", NameText(advMigrations[1]))>>


\* C11: without a migrations table and without any local migration, status
\* ends in HowToBaselineError and suggests no resolve command, whatever the
\* other fields of the DiagnoseResult.
C11_BaselineImpossible ==
  Advised /\ Cond1(advD) /\ advMigrations = <<>> =>
    /\ advReport.ret = "HowToBaselineError"
    /\ advReport.threw
    /\ advReport.commands = <<>>

\* C11 witness: no table, no local migration, failed migrations and drift on
\* a diverged history, ended in HowToBaselineError.
C11_Witness ==
  /\ Advised
  /\ Cond1(advD) /\ Cond2(advD) /\ Cond3(advD)
  /\ advMigrations = <<>>
  /\ advReport.threw

\* C12: the databaseIsBehind notice is produced only when no branch of
\* higher precedence is taken: never in the same run as the baseline, the
\* failed-migration or the drift plan.
C12_BehindNoticeAlone ==
  \A p \in AllProcs :
    StatusReported(p) /\ statusResult[p].behindNotice =>
      /\ statusResult[p].ret = "upToDate"
      /\ statusResult[p].commands = <<>>


IsPrefixOf(a, b) == Len(a) <= Len(b) /\ a = SubSeq(b, 1, Len(a))

NoRepeat(s) == \A i, j \in DOMAIN s : i # j => s[i] # s[j]

DeployPcs == {"d_ensure", "d_diagnose", "d_list", "d_apply", "d_applying",
              "d_done", "d_failed"}

StatusPcs == {"s_ensure", "s_diagnose", "s_list", "s_done", "s_failed"}

DeployCalls == <<"diagnoseMigrationHistory", "listMigrationDirectories",
                 "applyMigrations", "stop">>

StatusCalls == <<"diagnoseMigrationHistory", "listMigrationDirectories", "stop">>

CollaboratorErrors == {"Connectivity", "PreconditionViolation", "MigrationFailed"}

\* C14: a failure of diagnoseMigrationHistory, listMigrationDirectories or
\* applyMigrations ends the command with that error; no operation is invoked
\* twice in a run; nothing is invoked after the failure (not even stop); and
\* in deploy a failure of diagnose or list means applyMigrations is never
\* invoked.
C14_PropagatedNotRetried ==
  \A p \in AllProcs :
    /\ NoRepeat(calls[p])
    /\ pc[p] \in DeployPcs => IsPrefixOf(calls[p], DeployCalls)
    /\ pc[p] \in StatusPcs => IsPrefixOf(calls[p], StatusCalls)
    /\ pc[p] = "d_failed" =>
         /\ deployResult[p].threw
         /\ deployResult[p].text \in CollaboratorErrors
         /\ ~Invoked(p, "stop")
         /\ deployResult[p].text \in {"PreconditionViolation", "MigrationFailed"}
              => calls[p][Len(calls[p])] = "applyMigrations"
         /\ ~Invoked(p, "listMigrationDirectories") \/ Len(calls[p]) = 2
              => ~Invoked(p, "applyMigrations")
    /\ pc[p] = "s_failed" /\ statusResult[p].ret = "Connectivity" =>
         statusResult[p].threw /\ ~Invoked(p, "stop")

\* C14 witness: listMigrationDirectories failed in a deploy with a migration
\* to apply; the run ended with the error and applyMigrations not invoked.
C14_Witness ==
  /\ pc["p1"] = "d_failed"
  /\ deployResult["p1"] = DeployThrow("Connectivity")
  /\ calls["p1"] = <<"diagnoseMigrationHistory", "listMigrationDirectories">>
  /\ UnappliedMigrationNames # <<>>
  /\ NoBlockingState(diagnoseResult["p1"])

\* C15: status invokes diagnoseMigrationHistory once, with
\* optInToShadowDatabase = false (no rollback script comes back), then
\* listMigrationDirectories once, and never applyMigrations; no step of a
\* status run changes the local migrations, the history or the live schema.
C15_StatusReadOnly ==
  /\ [](\A p \in AllProcs :
          pc[p] \in StatusPcs =>
            /\ IsPrefixOf(calls[p], StatusCalls)
            /\ ~diagnoseResult[p].drift.rollback
            /\ StatusReported(p) => calls[p] = StatusCalls)
  /\ [][\A p \in AllProcs :
          pc'[p] \in StatusPcs /\ pc'[p] # pc[p] => UNCHANGED worldVars]_vars

\* C15 witness: status reported on a drifted database with an unapplied
\* migration and a non-empty history, after both calls.
C15_Witness ==
  /\ StatusReported("p1")
  /\ calls["p1"] = StatusCalls
  /\ drift
  /\ history # <<>>
  /\ UnappliedMigrationNames # <<>>

\* C18: with history databaseIsBehind and a non-empty
\* unappliedMigrationNames (migrations table, no failed migration, no drift)
\* status lists the unapplied migrations, offers no resolve command and does
\* not report the database as up to date.
C18_BehindIsNotUpToDate ==
  \A p \in AllProcs :
    LET d == diagnoseResult[p]
    IN StatusReported(p) /\ d.hasMigrationsTable /\ d.failedMigrationNames = <<>>
         /\ d.drift.diagnostic = "noDrift"
         /\ d.history.diagnostic = "databaseIsBehind"
         /\ d.history.unappliedMigrationNames # <<>> =>
           /\ statusResult[p].unappliedListed = d.history.unappliedMigrationNames
           /\ statusResult[p].commands = <<>>
           /\ statusResult[p].ret # "upToDate"

StopCount(p) == Cardinality({i \in DOMAIN calls[p] : calls[p][i] = "stop"})

\* C19: once the Migrate instance exists, every way a run of deploy or
\* status ends has called migrate.stop() exactly once, and as the last
\* operation of the run.
C19_StoppedOnEveryPath ==
  \A p \in AllProcs :
    pc[p] \in {"d_done", "d_failed", "s_done", "s_failed"} =>
      /\ StopCount(p) = 1
      /\ calls[p][Len(calls[p])] = "stop"


WithoutEdited(d) == [d EXCEPT !.editedMigrationNames = <<>>]

\* C13: edited migrations are informational.  Status returns for a
\* DiagnoseResult the report it returns for the same result with
\* editedMigrationNames emptied.  Deploy prints the warning exactly when
\* editedMigrationNames is non-empty, and then goes on as without it: it
\* fails only with a collaborator's error, applyMigrations is invoked once the
\* list returned, and a run that returns made the four calls in order.
C13_EditedInformational ==
  \A p \in AllProcs :
    /\ StatusReported(p) =>
         statusResult[p] =
           StatusReport(WithoutEdited(diagnoseResult[p]),
                        listMigrationDirectoriesResult[p].migrations)
    /\ pc[p] \in DeployPcs /\ Invoked(p, "listMigrationDirectories")
         /\ ~(pc[p] = "d_failed" /\ Len(calls[p]) = 2) =>
           editedWarned[p] = (diagnoseResult[p].editedMigrationNames # <<>>)
    /\ pc[p] = "d_failed" => deployResult[p].text \in CollaboratorErrors
    /\ pc[p] = "d_apply" =>
         calls[p] = <<"diagnoseMigrationHistory", "listMigrationDirectories">>
    /\ pc[p] = "d_done" =>
         /\ calls[p] = DeployCalls
         /\ deployResult[p] = DeployReturn(migrationIds[p])

\* C13 witness: a deploy warned about an edited migration and still applied
\* the pending one.
C13_Witness ==
  /\ pc["p1"] = "d_done"
  /\ editedWarned["p1"]
  /\ diagnoseResult["p1"].editedMigrationNames # <<>>
  /\ migrationIds["p1"] # <<>>


\* ------------------------------------------------ two deploys, no lock
\* (specification section 5: the diagnose-then-apply sequence is not atomic
\* and nothing below the caller serializes two invocations)

RunDeploy(p) ==
  \/ StartDeploy(p)
  \/ DeployEnsure(p)
  \/ DeployDiagnose(p)
  \/ DeployList(p)
  \/ DeployApply(p)
  \/ ApplyStep(p)
  \/ DeployFinish(p)
  \/ DeployCollaboratorThrows(p)

NextConc == \E p \in AllProcs : RunDeploy(p)

SpecConc == Init /\ [][NextConc]_vars

\* the rows of the history that record an attempt of m
AttemptsOf(m) == {i \in DOMAIN history : history[i].id = m}

AttemptedTwice == \E m \in Ids : Cardinality(AttemptsOf(m)) > 1

\* C16: as long as no deploy was started while another one was running (the
\* caller serialized them), no migration has two rows in the history: none
\* was attempted, hence none applied, more than once.
C16_SerializedAppliesOnce == ~overlapped => ~AttemptedTwice

\* C16 witness: two overlapping deploys both invoked applyMigrations and the
\* same migration was attempted twice.
C16_Witness ==
  /\ overlapped
  /\ Invoked("p1", "applyMigrations")
  /\ Invoked("p2", "applyMigrations")
  /\ \E m \in Ids :
       /\ Cardinality(AttemptsOf(m)) > 1
       /\ \A i \in AttemptsOf(m) : history[i].success


\* ------------------------------------------- status and resolve, in turns
\* (specification sections 4.2 and 6: resolve is the manual override the
\* status command recommends)

\* resolve(identifier, outcome): the failed attempt is marked rolled back;
\* with outcome applied the migration is recorded as applied
Resolve ==
  /\ \E i \in DOMAIN history, outcome \in {"applied", "rolledBack"} :
       /\ IsFailedRow(history[i])
       /\ LET marked == [history EXCEPT ![i].rolledBack = TRUE]
          IN history' = IF outcome = "applied"
                          THEN Append(marked, Row(history[i].id, TRUE))
                          ELSE marked
  /\ unchangedSinceOk' = FALSE
  /\ UNCHANGED <<local, hasTable, drift, edited, pc, diagnoseResult,
                 listMigrationDirectoriesResult, pending, migrationIds,
                 calls, deployResult, statusResult, runs, logVars,
                 startedAfterOk, advVars>>

\* a history left by earlier deploys, overlapping ones included: up to
\* MaxFailed attempts, any of them failed, no migration failed twice
InitResolve ==
  /\ local = SortedSeq(Ids)
  /\ hasTable = TRUE
  /\ drift = FALSE
  /\ edited = {}
  /\ \E n \in 0..MaxFailed :
       \E ids \in [1..n -> Ids] :
         \E oks \in [1..n -> BOOLEAN] :
           /\ \A i, j \in 1..n :
                i # j /\ ~oks[i] /\ ~oks[j] => ids[i] # ids[j]
           /\ history = [i \in 1..n |-> Row(ids[i], oks[i])]
  /\ InitRuns
  /\ advIn = <<>>
  /\ advOut = <<>>

NextResolve ==
  \/ StartStatus("p1")
  \/ StatusEnsure("p1")
  \/ StatusDiagnose("p1")
  \/ StatusList("p1")
  \/ StatusCollaboratorThrows("p1")
  \/ Resolve

SpecResolve == InitResolve /\ [][NextResolve]_vars

\* the two commands a status call prints for the failed migration m
ResolveCommands(m) ==
  <<Command("rolledback", NameText(m)), Command("applied", NameText(m))>>

\* the migration the k-th offer names
OfferedName(k) == offered[k][1].arg[1]

\* the row of the failed attempt of m
FailedAttempt(m) ==
  CHOOSE i \in DOMAIN history : history[i].id = m /\ ~history[i].success

\* C17: every status call that finds failed migrations prints the rolledback
\* and the applied command for one migration, the first of
\* failedMigrationNames; over a run of status and resolve steps the offers
\* follow the order of the failed attempts in the history, and a migration
\* is offered after another one only when that one's attempt was resolved.
C17_TieBreakAcrossCalls ==
  /\ \A p \in AllProcs :
       StatusReported(p) /\ diagnoseResult[p].hasMigrationsTable
         /\ diagnoseResult[p].failedMigrationNames # <<>> =>
           /\ statusResult[p].ret = "failed"
           /\ statusResult[p].commands =
                ResolveCommands(Head(diagnoseResult[p].failedMigrationNames))
  /\ \A k \in DOMAIN offered :
       /\ offered[k] = ResolveCommands(OfferedName(k))
       /\ \E i \in DOMAIN history :
            history[i].id = OfferedName(k) /\ ~history[i].success
  /\ \A j, k \in DOMAIN offered :
       j < k =>
         /\ FailedAttempt(OfferedName(j)) <= FailedAttempt(OfferedName(k))
         /\ OfferedName(j) # OfferedName(k) =>
              history[FailedAttempt(OfferedName(j))].rolledBack

\* C17 witness: of two failed migrations the first was offered and resolved,
\* and the second offered by the next status call while still failed.
C17_Witness ==
  /\ Len(offered) = 2
  /\ OfferedName(1) # OfferedName(2)
  /\ FailedAttempt(OfferedName(1)) < FailedAttempt(OfferedName(2))
  /\ history[FailedAttempt(OfferedName(1))].rolledBack
  /\ FailedMigrationNames = <<OfferedName(2)>>

====
